---- MODULE Spec2Model ----
(***************************************************************************)
(* Model of backend/rag/server.py: the HTTP wrapper that binds ChromaDB    *)
(* collections to embedding models.  Every endpoint handler is one action; *)
(* the storage engine (chroma_client / collection objects) is the variable *)
(* chroma, and the last HTTP response is the variable resp.                *)
(*                                                                         *)
(* Engine behaviour the handlers rely on (ChromaDB client contract):       *)
(*   get_collection / delete_collection raise when the name is unknown,    *)
(*   create_collection raises when the name exists, modify replaces the    *)
(*   metadata map, add skips ids that are already stored, raises on ids    *)
(*   duplicated inside one batch and on a vector whose dimensionality      *)
(*   differs from the collection's, query returns the n_results nearest    *)
(*   stored vectors by cosine distance, nearest first.                     *)
(***************************************************************************)
EXTENDS Integers, Sequences, FiniteSets, TLC

\* ------------------------------------------------------------------ bounds
\* documents in one addDocuments request
MaxBatch == 2
\* generated (uuid4) ids that can be stored in a collection at one time
MaxGen == 1
\* candidates in one rerank request
MaxCand == 3
\* documents in a collection whose metadata values are listed
MaxStored == 3

\* ------------------------------------------------------------ input sets
\* names clients create collections under
Names == {"c1"}
\* a name no client ever creates, used by queries on an unknown collection
Ghost == "ghost"
RequestNames == Names \cup {Ghost}
\* "" stands for an absent (None) or empty string field
NoName == ""
ClientIds == {"d1"}
Texts == {"a", "b"}
TopKs == {1, 2}

EmptyMeta == [k \in {} |-> ""]

Meta1(k, v) == [x \in {k} |-> v]

\* metadata maps a client sends for a collection
CollMetas == {EmptyMeta, Meta1("topic", "t"), Meta1("embedding_model", "m2")}
\* metadata maps a client sends for a document
DocMetas == {EmptyMeta, Meta1("topic", "x")}
\* where filters of a query ({} is "no filter")
Wheres == {EmptyMeta, Meta1("topic", "x")}

\* ------------------------------------------------------- model registry
\* embedding_models: id -> dimensions of the loaded SentenceTransformer
embedding_models == [m \in {"m1", "m2"} |-> [dimensions |-> IF m = "m1" THEN 2 ELSE 3]]

\* model ids a create request can carry: loaded, not loaded, absent
RequestModels == {"m1", "m2", "mx", NoName}

\* model.encode(text): a unit vector of the model's dimensionality
encode(m, text) ==
    [i \in 1..embedding_models[m].dimensions |->
        IF (text = "a" /\ i = 1) \/ (text = "b" /\ i = 2) THEN 1 ELSE 0]

RECURSIVE Dot(_, _, _)
Dot(u, v, i) == IF i = 0 THEN 0 ELSE u[i] * v[i] + Dot(u, v, i - 1)

\* cosine distance of two unit vectors of the same length: 1 - <u, v>
distance(u, v) == 1 - Dot(u, v, Len(u))

\* ---------------------------------------------------------------- helpers
\* Python {**a, **b}: keys of both, b wins
PyMerge(a, b) ==
    [k \in (DOMAIN a) \cup (DOMAIN b) |-> IF k \in DOMAIN b THEN b[k] ELSE a[k]]

\* Python d.get(k) with None/"" both falsy
MetaGet(m, k) == IF k \in DOMAIN m THEN m[k] ELSE NoName

Range(s) == {s[i] : i \in DOMAIN s}

Min(a, b) == IF a <= b THEN a ELSE b

\* --------------------------------------------------------------- state
\* chroma: the engine's collections; created_with: the model id each
\* collection was created with; resp: the last response;
\* cross_encoder_model: whether a reranker was loaded at startup;
\* emptying: the empty_collection request that has read its ids and has not
\* deleted them yet
VARIABLES chroma, created_with, resp, cross_encoder_model, emptying

vars == <<chroma, created_with, resp, cross_encoder_model, emptying>>

\* the part of the state no collection or document handler writes
aux == <<cross_encoder_model, emptying>>

NoCollection == [exists |-> FALSE, metadata |-> EmptyMeta, docs |-> <<>>, dimension |-> 0]

BaseResp ==
    [op |-> "none", name |-> NoName, status |-> 0, existed |-> FALSE,
     calls |-> <<>>, encoded |-> 0, model |-> NoName,
     metadata |-> EmptyMeta, ids |-> <<>>, count |-> 0,
     ndocs |-> 0, bad |-> 0, hits |-> <<>>, documents |-> <<>>,
     query |-> NoName, top_k |-> 0, where |-> EmptyMeta,
     reqmeta |-> EmptyMeta, merge |-> FALSE,
     reqdocs |-> <<>>, reranked |-> <<>>, field |-> NoName, values |-> <<>>,
     limit |-> 0, offset |-> 0, total |-> 0]

\* chroma_client.get_collection(name): the collection, or a raise (exists
\* FALSE) when the engine has no collection of that name
get_collection(name) == IF name \in Names THEN chroma[name] ELSE NoCollection

\* no empty_collection request is between its read and its delete
NoEmptying == [active |-> FALSE, name |-> NoName, ids |-> <<>>]

\* what the persistent store can hold under a name when the process starts:
\* nothing, or a collection created by an earlier run whose model "mx" the
\* current configuration does not load
Persisted ==
    {NoCollection,
     [NoCollection EXCEPT !.exists = TRUE,
        !.metadata = PyMerge(Meta1("embedding_model", "mx"), Meta1("hnsw:space", "cosine"))]}

Init ==
    /\ chroma \in [Names -> Persisted]
    /\ created_with = [n \in Names |-> MetaGet(chroma[n].metadata, "embedding_model")]
    /\ resp = BaseResp
    /\ cross_encoder_model = FALSE
    /\ emptying = NoEmptying

\* ------------------------------------------------- collection registry
\* create_metadata with the merge order reversed: the caller's keys win
create_metadata_caller_wins(reqMeta, model) ==
    PyMerge(PyMerge(Meta1("embedding_model", model), Meta1("hnsw:space", "cosine")),
            reqMeta)

\* metadata handed to chroma_client.create_collection
create_metadata(reqMeta, model) ==
    PyMerge(PyMerge(reqMeta, Meta1("embedding_model", model)),
            Meta1("hnsw:space", "cosine"))

\* create_status without the checks of the model id
create_status_unvalidated(existed, model) == IF existed THEN 500 ELSE 200

\* status of POST /collections; the "already exists" 400 raised inside the
\* inner try is swallowed by the bare except, so an existing name only
\* fails when create_collection itself raises
create_status(existed, model) ==
    IF model = NoName THEN 400
    ELSE IF model \notin DOMAIN embedding_models THEN 400
    ELSE IF existed THEN 500
    ELSE 200

create_collection(name, model, reqMeta) ==
    LET existed == get_collection(name).exists
        st == create_status(existed, model)
        md == create_metadata(reqMeta, model)
    IN  /\ chroma' = IF st = 200
                     THEN [chroma EXCEPT ![name] =
                             [exists |-> TRUE, metadata |-> md, docs |-> <<>>, dimension |-> 0]]
                     ELSE chroma
        /\ created_with' = IF st = 200 THEN [created_with EXCEPT ![name] = model]
                           ELSE created_with
        /\ resp' = [BaseResp EXCEPT !.op = "create", !.name = name, !.status = st,
                      !.existed = existed, !.model = model, !.reqmeta = reqMeta,
                      !.calls = IF st = 400 THEN <<"get_collection">>
                                ELSE <<"get_collection", "create_collection">>,
                      !.metadata = IF st = 200 THEN md ELSE reqMeta]
        /\ UNCHANGED aux

\* updated_metadata with the merge the other way round: existing values win
updated_metadata_existing_wins(existing, reqMeta, merge) ==
    IF merge THEN PyMerge(reqMeta, existing) ELSE reqMeta

\* metadata handed to collection.modify
updated_metadata(existing, reqMeta, merge) ==
    IF merge THEN PyMerge(existing, reqMeta) ELSE reqMeta

update_collection_metadata(name, reqMeta, merge) ==
    LET existed == get_collection(name).exists
        md == updated_metadata(get_collection(name).metadata, reqMeta, merge)
    IN  /\ chroma' = IF existed THEN [chroma EXCEPT ![name].metadata = md] ELSE chroma
        /\ resp' = [BaseResp EXCEPT !.op = "update", !.name = name,
                      !.status = IF existed THEN 200 ELSE 500,
                      !.existed = existed, !.reqmeta = reqMeta, !.merge = merge,
                      !.calls = IF existed THEN <<"get_collection", "modify">>
                                ELSE <<"get_collection">>,
                      !.metadata = IF existed THEN md ELSE EmptyMeta]
        /\ UNCHANGED <<created_with, aux>>

delete_collection(name) ==
    LET existed == get_collection(name).exists
    IN  /\ chroma' = IF existed THEN [chroma EXCEPT ![name] = NoCollection] ELSE chroma
        /\ created_with' = IF existed THEN [created_with EXCEPT ![name] = NoName]
                           ELSE created_with
        /\ resp' = [BaseResp EXCEPT !.op = "delete_collection", !.name = name,
                      !.status = IF existed THEN 200 ELSE 500,
                      !.existed = existed,
                      !.calls = <<"delete_collection">>]
        /\ UNCHANGED aux

\* ------------------------------------------------------ model resolution
\* get_embedding_model_for_collection: 400 when the metadata has no
\* embedding_model, 503 when it names a model that is not loaded
get_embedding_model_for_collection(metadata) ==
    LET model_id == MetaGet(metadata, "embedding_model")
    IN  IF model_id = NoName THEN [status |-> 400, model |-> NoName]
        ELSE IF model_id \notin DOMAIN embedding_models THEN [status |-> 503, model |-> model_id]
        ELSE [status |-> 200, model |-> model_id]

\* ------------------------------------------------------------ ingestion
\* one entry of request.documents; text "" is a missing or empty text,
\* id "" a missing id; here a client that names its document sends no
\* metadata and one that leaves the id out tags the document
ReqDocs ==
    {[text |-> "a", metadata |-> EmptyMeta, id |-> i] : i \in ClientIds}
    \cup {[text |-> t, metadata |-> md, id |-> NoName] :
             t \in Texts \cup {NoName}, md \in DocMetas \ {EmptyMeta}}

Batches == UNION {[1..k -> ReqDocs] : k \in 0..MaxBatch}

\* index of the first entry the loop rejects, 0 when every text is non-empty
FirstBad(docs) ==
    IF \E i \in DOMAIN docs : docs[i].text = NoName
    THEN CHOOSE i \in DOMAIN docs :
            /\ docs[i].text = NoName
            /\ \A j \in DOMAIN docs : docs[j].text = NoName => i <= j
    ELSE 0

StoredIds(coll) == {coll.docs[i].id : i \in DOMAIN coll.docs}

Blanks(docs, i) == Cardinality({j \in 1..i : docs[j].id = NoName})

\* f"doc_{uuid.uuid4()}": uuid4 never returns an id that is in use; the
\* generated ids are doc_1, doc_2, ... and a request gets the lowest ones
\* that the collection does not hold
GenId(u) == "doc_" \o ToString(u)

FreeGen(coll) == {u \in 1..MaxGen : GenId(u) \notin StoredIds(coll)}

NthFree(coll, j) ==
    CHOOSE u \in FreeGen(coll) : Cardinality({v \in FreeGen(coll) : v < u}) = j - 1

\* doc.get('id') or a generated id, in request order
assign_ids(docs, coll) ==
    [i \in DOMAIN docs |->
        IF docs[i].id # NoName THEN docs[i].id ELSE GenId(NthFree(coll, Blanks(docs, i)))]

\* the records collection.add receives: texts, metadatas, ids, embeddings
prepared(docs, coll, model) ==
    [i \in DOMAIN docs |->
        [id |-> assign_ids(docs, coll)[i], text |-> docs[i].text,
         metadata |-> docs[i].metadata, embedding |-> encode(model, docs[i].text)]]

\* collection.add raises on an id repeated in the batch and on a vector of
\* another dimensionality than the collection's
add_raises(coll, recs) ==
    \/ \E i, j \in DOMAIN recs : i # j /\ recs[i].id = recs[j].id
    \/ \E i \in DOMAIN recs : coll.dimension # 0 /\ Len(recs[i].embedding) # coll.dimension

\* collection.add: records whose id is already stored are skipped
engine_add(coll, recs) ==
    LET fresh(r) == r.id \notin StoredIds(coll)
    IN  [coll EXCEPT !.docs = coll.docs \o SelectSeq(recs, fresh),
                     !.dimension = Len(recs[1].embedding)]

\* add_status with the per-document text check done before model resolution
add_status_texts_first(coll, docs) ==
    LET res == get_embedding_model_for_collection(coll.metadata)
    IN  IF ~coll.exists THEN 500
        ELSE IF docs = <<>> THEN 400
        ELSE IF FirstBad(docs) # 0 THEN 400
        ELSE IF res.status # 200 THEN res.status
        ELSE IF add_raises(coll, prepared(docs, coll, res.model)) THEN 500
        ELSE 200

\* add_status without the per-document text check
add_status_no_text_check(coll, docs) ==
    LET res == get_embedding_model_for_collection(coll.metadata)
    IN  IF ~coll.exists THEN 500
        ELSE IF docs = <<>> THEN 400
        ELSE IF res.status # 200 THEN res.status
        ELSE IF add_raises(coll, prepared(docs, coll, res.model)) THEN 500
        ELSE 200

add_status(coll, docs) ==
    LET res == get_embedding_model_for_collection(coll.metadata)
    IN  IF ~coll.exists THEN 500
        ELSE IF docs = <<>> THEN 400
        ELSE IF res.status # 200 THEN res.status
        ELSE IF FirstBad(docs) # 0 THEN 400
        ELSE IF add_raises(coll, prepared(docs, coll, res.model)) THEN 500
        ELSE 200

add_documents(name, docs) ==
    LET coll == get_collection(name)
        res == get_embedding_model_for_collection(coll.metadata)
        st == add_status(coll, docs)
        reached_encode == coll.exists /\ docs # <<>> /\ res.status = 200 /\ FirstBad(docs) = 0
    IN  /\ reached_encode => Blanks(docs, Len(docs)) <= Cardinality(FreeGen(coll))
        /\ chroma' = IF st = 200
                     THEN [chroma EXCEPT ![name] = engine_add(coll, prepared(docs, coll, res.model))]
                     ELSE chroma
        /\ resp' = [BaseResp EXCEPT !.op = "add", !.name = name, !.status = st,
                      !.existed = coll.exists,
                      !.ndocs = Len(docs), !.bad = FirstBad(docs),
                      !.model = IF coll.exists /\ docs # <<>> THEN res.model ELSE NoName,
                      !.encoded = IF reached_encode THEN Len(docs) ELSE 0,
                      !.calls = IF reached_encode THEN <<"get_collection", "add">>
                                ELSE <<"get_collection">>,
                      !.count = IF st = 200 THEN Len(docs) ELSE 0,
                      !.ids = IF st = 200 THEN assign_ids(docs, coll) ELSE <<>>]
        /\ UNCHANGED <<created_with, aux>>

AllIds == ClientIds \cup {GenId(u) : u \in 1..MaxGen}

delete_documents(name, ids) ==
    LET coll == get_collection(name)
        keep(d) == d.id \notin ids
    IN  /\ chroma' = IF coll.exists
                     THEN [chroma EXCEPT ![name].docs = SelectSeq(coll.docs, keep)]
                     ELSE chroma
        /\ resp' = [BaseResp EXCEPT !.op = "delete_documents", !.name = name,
                      !.status = IF coll.exists THEN 200 ELSE 500,
                      !.existed = coll.exists,
                      !.calls = IF coll.exists THEN <<"get_collection", "delete">>
                                ELSE <<"get_collection">>,
                      !.count = IF coll.exists THEN Cardinality(ids) ELSE 0]
        /\ UNCHANGED <<created_with, aux>>

\* empty_collection: read every id, then delete those ids.  An unknown name
\* is 404 when get_collection raises ValueError and 500 when it raises
\* another exception type; which one depends on the engine release.
\* all_ids_of read with the engine's default page instead of limit=None
all_ids_first_page(coll) == [i \in 1..Min(1, Len(coll.docs)) |-> coll.docs[i].id]

\* results.get("ids") of collection.get(limit=None): every stored id
all_ids_of(coll) == [i \in DOMAIN coll.docs |-> coll.docs[i].id]

empty_collection(name, not_found_status) ==
    LET coll == get_collection(name)
        all_ids == all_ids_of(coll)
        count_deleted == Len(all_ids)
        keep(d) == d.id \notin Range(all_ids)
    IN  /\ chroma' = IF coll.exists /\ count_deleted > 0
                     THEN [chroma EXCEPT ![name].docs = SelectSeq(coll.docs, keep)]
                     ELSE chroma
        /\ resp' = [BaseResp EXCEPT !.op = "empty", !.name = name,
                      !.status = IF coll.exists THEN 200 ELSE not_found_status,
                      !.existed = coll.exists,
                      !.calls = IF ~coll.exists THEN <<"get_collection">>
                                ELSE IF count_deleted > 0 THEN <<"get_collection", "get", "delete">>
                                ELSE <<"get_collection", "get">>,
                      !.count = IF coll.exists THEN count_deleted ELSE 0]
        /\ UNCHANGED <<created_with, aux>>

\* empty_collection as the two engine calls it is made of.  Handlers are
\* plain functions, which the framework runs on worker threads, and nothing
\* in the handler holds a lock between the calls.
\* collection.delete(ids) that removes whatever is stored at that moment
engine_delete_all(coll, ids) == [coll EXCEPT !.docs = <<>>]

\* collection.delete(ids=all_ids): the documents with these ids are removed
engine_delete(coll, ids) ==
    LET keep(d) == d.id \notin Range(ids)
    IN  [coll EXCEPT !.docs = SelectSeq(coll.docs, keep)]

\* lines 622-627: look the collection up and read all its ids
empty_read(name, not_found_status) ==
    LET coll == get_collection(name)
    IN  /\ ~emptying.active
        /\ IF coll.exists
           THEN /\ emptying' = [active |-> TRUE, name |-> name, ids |-> all_ids_of(coll)]
                /\ UNCHANGED resp
           ELSE /\ resp' = [BaseResp EXCEPT !.op = "empty", !.name = name,
                              !.status = not_found_status,
                              !.calls = <<"get_collection">>]
                /\ UNCHANGED emptying
        /\ UNCHANGED <<chroma, created_with, cross_encoder_model>>

\* lines 630-640: delete the ids that were read, if any, and answer
empty_delete ==
    LET name == emptying.name
        all_ids == emptying.ids
        count_deleted == Len(all_ids)
    IN  /\ emptying.active
        /\ chroma' = IF count_deleted > 0
                     THEN [chroma EXCEPT ![name] = engine_delete(chroma[name], all_ids)]
                     ELSE chroma
        /\ resp' = [BaseResp EXCEPT !.op = "empty", !.name = name,
                      !.status = 200, !.existed = TRUE,
                      !.calls = IF count_deleted > 0
                                THEN <<"get_collection", "get", "delete">>
                                ELSE <<"get_collection", "get">>,
                      !.count = count_deleted]
        /\ emptying' = NoEmptying
        /\ UNCHANGED <<created_with, cross_encoder_model>>

\* ---------------------------------------------------------- introspection
\* a where filter of the shape {field: value}
matches(metadata, where) ==
    \A k \in DOMAIN where : k \in DOMAIN metadata /\ metadata[k] = where[k]

\* collection.get(where, limit, offset, include=["documents", "metadatas"]):
\* ids, texts and metadatas in stored order, filtered, paged
engine_get(coll, where, limit, offset) ==
    LET ok(d) == matches(d.metadata, where)
        visible == [i \in DOMAIN coll.docs |->
                      [id |-> coll.docs[i].id, text |-> coll.docs[i].text,
                       metadata |-> coll.docs[i].metadata]]
        sel == SelectSeq(visible, ok)
    IN  SubSeq(sel, offset + 1, Min(Len(sel), offset + limit))

\* limit: int = Query(default=100, le=1000)
DefaultLimit == 100
MaxLimit == 1000

\* the limit of a request that gives none; limits below 1 are not among the
\* inputs
NoLimit == -1

limit_or_default(limit) == IF limit = NoLimit THEN DefaultLimit ELSE limit

\* query_rejected without the bound on limit
query_rejected_no_le(limit, offset) == offset < 0

\* Query(le=1000) and Query(ge=0): a request outside them is answered 422 by
\* the framework and the handler body does not run
query_rejected(limit, offset) == limit > MaxLimit \/ offset < 0

get_documents(name, where, limit, offset) ==
    LET coll == get_collection(name)
        lim == limit_or_default(limit)
        rejected == query_rejected(lim, offset)
        documents == IF rejected THEN <<>> ELSE engine_get(coll, where, lim, offset)
    IN  /\ resp' = IF rejected
                   THEN [BaseResp EXCEPT !.op = "get_documents", !.name = name,
                           !.status = 422, !.where = where,
                           !.limit = lim, !.offset = offset]
                   ELSE [BaseResp EXCEPT !.op = "get_documents", !.name = name,
                           !.status = IF coll.exists THEN 200 ELSE 500,
                           !.existed = coll.exists,
                           !.where = where, !.limit = lim, !.offset = offset,
                           !.calls = IF coll.exists THEN <<"get_collection", "get">>
                                     ELSE <<"get_collection">>,
                           !.documents = IF coll.exists THEN documents ELSE <<>>,
                           !.count = IF coll.exists THEN Len(documents) ELSE 0,
                           !.total = IF coll.exists THEN Len(documents) ELSE 0]
        /\ UNCHANGED <<chroma, created_with, aux>>

\* ---------------------------------------------------------------- query
\* collection.query(query_embeddings, n_results, where): every ordering the
\* engine may return: the n_results nearest matching documents, nearest
\* first, ties in any order
engine_query(coll, q, n_results, where) ==
    LET M == {i \in DOMAIN coll.docs : matches(coll.docs[i].metadata, where)}
        k == Min(n_results, Cardinality(M))
        d(i) == distance(q, coll.docs[i].embedding)
    IN  {h \in [1..k -> M] :
            /\ \A i, j \in 1..k : i # j => h[i] # h[j]
            /\ \A i, j \in 1..k : i < j => d(h[i]) <= d(h[j])
            /\ \A m \in M \ Range(h) : \A i \in 1..k : d(h[i]) <= d(m)}

\* query_embedding with a process-wide default model instead of the bound one
query_embedding_default_model(metadata, text) == encode("m1", text)

\* model.encode([request.query]) with the model the metadata resolves to
query_embedding(metadata, text) ==
    encode(get_embedding_model_for_collection(metadata).model, text)

query_raises(coll, q) == coll.dimension # 0 /\ Len(q) # coll.dimension

\* status of an unknown collection: 404, unless the diagnostic print of
\* [c.name for c in list_collections()] raises inside the except block,
\* which it does when list_collections returns plain names and at least
\* one collection exists; the outer handler then answers 500
query_missing_statuses == IF \E n \in Names : chroma[n].exists THEN {404, 500} ELSE {404}

query_db(name, text, top_k, where) ==
    IF name = NoName
    THEN /\ resp' = [BaseResp EXCEPT !.op = "query", !.name = name, !.status = 400]
         /\ UNCHANGED <<chroma, created_with, aux>>
    ELSE IF ~get_collection(name).exists
    THEN /\ \E st \in query_missing_statuses :
               resp' = [BaseResp EXCEPT !.op = "query", !.name = name, !.status = st,
                          !.calls = <<"get_collection", "list_collections">>]
         /\ UNCHANGED <<chroma, created_with, aux>>
    ELSE LET coll == get_collection(name)
             res == get_embedding_model_for_collection(coll.metadata)
             q == query_embedding(coll.metadata, text)
             base == [BaseResp EXCEPT !.op = "query", !.name = name, !.existed = TRUE,
                        !.query = text, !.top_k = top_k, !.where = where,
                        !.model = res.model]
         IN  /\ IF res.status # 200
                THEN resp' = [base EXCEPT !.status = res.status, !.calls = <<"get_collection">>]
                ELSE IF query_raises(coll, q)
                THEN resp' = [base EXCEPT !.status = 500, !.encoded = 1,
                                !.calls = <<"get_collection", "query">>]
                ELSE \E h \in engine_query(coll, q, top_k, where) :
                        resp' = [base EXCEPT !.status = 200, !.encoded = 1,
                                   !.calls = <<"get_collection", "query">>,
                                   !.metadata = coll.metadata,
                                   !.count = Len(h),
                                   !.hits = [i \in DOMAIN h |->
                                               [id |-> coll.docs[h[i]].id,
                                                text |-> coll.docs[h[i]].text,
                                                distance |-> distance(q, coll.docs[h[i]].embedding),
                                                metadata |-> coll.docs[h[i]].metadata]]]
             /\ UNCHANGED <<chroma, created_with, aux>>

\* ------------------------------------------------------- metadata values
\* Document metadata values are strings, numbers or booleans.  "#n" stands
\* for the integer n, every other value for the string itself.
py_str(value) ==
    CASE value = "#9" -> "9"
      [] value = "#10" -> "10"
      [] value = "#100" -> "100"
      [] OTHER -> value

\* the code points of the strings str() can produce here
code_points(s) ==
    CASE s = "9" -> <<57>>
      [] s = "10" -> <<49, 48>>
      [] s = "100" -> <<49, 48, 48>>
      [] OTHER -> <<>>

\* u < v for sequences of code points, as Python compares strings
RECURSIVE seq_less(_, _)
seq_less(u, v) ==
    IF v = <<>> THEN FALSE
    ELSE IF u = <<>> THEN TRUE
    ELSE IF Head(u) # Head(v) THEN Head(u) < Head(v)
    ELSE seq_less(Tail(u), Tail(v))

str_less(a, b) == seq_less(code_points(a), code_points(b))

\* sorted(list(values_set))
RECURSIVE py_sorted(_)
py_sorted(S) ==
    IF S = {} THEN <<>>
    ELSE LET least == CHOOSE x \in S : \A y \in S \ {x} : str_less(x, y)
         IN  <<least>> \o py_sorted(S \ {least})

\* values_set without the test for the field: the values of every field
values_set_all_fields(metadatas, field) ==
    {py_str(MetaGet(metadatas[i], k)) : i \in DOMAIN metadatas, k \in {"year", "topic"}}
        \ {NoName}

\* the loop of lines 789-794: str(value) of every metadata that has the field
values_set(metadatas, field) ==
    {py_str(metadatas[i][field]) : i \in {j \in DOMAIN metadatas : field \in DOMAIN metadatas[j]}}

get_metadata_values(name, field) ==
    LET coll == get_collection(name)
        metadatas == [i \in DOMAIN coll.docs |-> coll.docs[i].metadata]
        unique_values == py_sorted(values_set(metadatas, field))
    IN  /\ resp' = IF ~coll.exists
                   THEN [BaseResp EXCEPT !.op = "get_metadata_values", !.name = name,
                           !.status = 500, !.calls = <<"get_collection">>]
                   ELSE [BaseResp EXCEPT !.op = "get_metadata_values", !.name = name,
                           !.status = 200, !.existed = TRUE,
                           !.calls = <<"get_collection", "get">>,
                           !.field = field, !.values = unique_values,
                           !.count = Len(unique_values)]
        /\ UNCHANGED <<chroma, created_with, aux>>

\* ---------------------------------------------------------------- rerank
\* one entry of request.documents of POST /rerank: {id, text}
RerankQueries == {"q1", "q2"}
\* ids need not be unique within one request
Candidates ==
    {[id |-> "r1", text |-> "a"], [id |-> "r2", text |-> "b"], [id |-> "r1", text |-> "c"]}
CandidateLists == UNION {[1..k -> Candidates] : k \in 0..MaxCand}

\* top_k of a rerank request when the field is absent (None); negative
\* values are not among the inputs
NoTopK == -1
RerankTopKs == {NoTopK} \cup (0..(MaxCand + 1))

\* cross_encoder_model.predict on one (query, text) pair: a relevance score
\* that depends on that pair alone
predict(query, text) ==
    IF query = "q1"
    THEN (IF text = "c" THEN 1 ELSE 2)
    ELSE (IF text = "a" THEN 0 ELSE IF text = "b" THEN 3 ELSE -1)

\* scored_docs before sorting: id, score and 1-based input position
scored_docs(query, documents) ==
    [i \in DOMAIN documents |->
        [id |-> documents[i].id, score |-> predict(query, documents[i].text),
         original_rank |-> i]]

\* insert_by_score with a strict comparison: an item passes its equals
RECURSIVE insert_before_equals(_, _)
insert_before_equals(x, s) ==
    IF s = <<>> THEN <<x>>
    ELSE IF Head(s).score > x.score THEN <<Head(s)>> \o insert_before_equals(x, Tail(s))
    ELSE <<x>> \o s

\* place x in a list sorted by descending score, behind every item whose
\* score is at least x's
RECURSIVE insert_by_score(_, _)
insert_by_score(x, s) ==
    IF s = <<>> THEN <<x>>
    ELSE IF Head(s).score >= x.score THEN <<Head(s)>> \o insert_by_score(x, Tail(s))
    ELSE <<x>> \o s

\* scored_docs.sort(key=score, reverse=True): Python's sort keeps the input
\* order of items with equal keys, also with reverse=True
RECURSIVE sort_by_score(_)
sort_by_score(s) ==
    IF s = <<>> THEN <<>>
    ELSE insert_by_score(s[Len(s)], sort_by_score(SubSeq(s, 1, Len(s) - 1)))

\* "if request.top_k: scored_docs = scored_docs[:request.top_k]": None and 0
\* are both falsy, so neither truncates
apply_top_k(sorted, top_k) ==
    IF top_k # NoTopK /\ top_k # 0
    THEN SubSeq(sorted, 1, Min(top_k, Len(sorted)))
    ELSE sorted

rerank_documents(query, documents, top_k) ==
    /\ resp' = IF ~cross_encoder_model
               THEN [BaseResp EXCEPT !.op = "rerank", !.status = 503]
               ELSE [BaseResp EXCEPT !.op = "rerank", !.status = 200,
                       !.query = query, !.top_k = top_k, !.reqdocs = documents,
                       !.reranked = apply_top_k(sort_by_score(scored_docs(query, documents)),
                                                top_k)]
    /\ UNCHANGED <<chroma, created_with, aux>>

Next ==
    \/ \E n \in Names, m \in RequestModels, md \in CollMetas : create_collection(n, m, md)
    \/ \E n \in Names, md \in CollMetas, mg \in BOOLEAN : update_collection_metadata(n, md, mg)
    \/ \E n \in Names : delete_collection(n)
    \/ \E n \in Names, docs \in Batches : add_documents(n, docs)
    \/ \E n \in Names, ids \in (SUBSET AllIds) \ {{}} : delete_documents(n, ids)
    \/ \E n \in Names, st \in {404, 500} : empty_collection(n, st)
    \/ \E n \in Names, w \in Wheres, l \in {1, 100}, o \in {0, 1} : get_documents(n, w, l, o)
    \/ \E n \in RequestNames \cup {NoName}, t \in Texts, k \in TopKs, w \in Wheres : query_db(n, t, k, w)

Spec == Init /\ [][Next]_vars

\* the rerank stage on its own: a process started with or without a
\* cross-encoder, answering rerank requests
InitRerank ==
    /\ chroma = [n \in Names |-> NoCollection]
    /\ created_with = [n \in Names |-> NoName]
    /\ resp = BaseResp
    /\ cross_encoder_model \in BOOLEAN
    /\ emptying = NoEmptying

NextRerank ==
    \E q \in RerankQueries, docs \in CandidateLists, k \in RerankTopKs :
        rerank_documents(q, docs, k)

SpecRerank == InitRerank /\ [][NextRerank]_vars

\* metadata values on their own: a store that holds documents with numeric
\* and string metadata, answering metadata-values requests
ValueFields == {"year", "topic", "region"}
ValueMetas ==
    {PyMerge(y, t) : y \in {EmptyMeta, Meta1("year", "10"), Meta1("year", "#10"),
                            Meta1("year", "#9"), Meta1("year", "#100")},
                     t \in {EmptyMeta, Meta1("topic", "#9")}}

ValueStores ==
    {NoCollection} \cup
    {[exists |-> TRUE,
      metadata |-> PyMerge(Meta1("embedding_model", "m1"), Meta1("hnsw:space", "cosine")),
      docs |-> [i \in DOMAIN ms |->
                  [id |-> GenId(i), text |-> "a", metadata |-> ms[i],
                   embedding |-> encode("m1", "a")]],
      dimension |-> IF ms = <<>> THEN 0 ELSE embedding_models["m1"].dimensions] :
        ms \in UNION {[1..k -> ValueMetas] : k \in 0..MaxStored}}

InitValues ==
    /\ chroma \in [Names -> ValueStores]
    /\ created_with = [n \in Names |-> MetaGet(chroma[n].metadata, "embedding_model")]
    /\ resp = BaseResp
    /\ cross_encoder_model = FALSE
    /\ emptying = NoEmptying

NextValues == \E n \in Names, f \in ValueFields : get_metadata_values(n, f)

SpecValues == InitValues /\ [][NextValues]_vars

\* paging on its own: stores around the size of the largest page, answering
\* getDocuments requests with limits and offsets inside and outside the
\* declared ranges
PageSizes == {0, 2, MaxLimit, MaxLimit + 1}
PageLimits == {NoLimit, 1, DefaultLimit + 1, MaxLimit, MaxLimit + 1, 5 * MaxLimit}
PageOffsets == {-1, 0, 1, MaxLimit}

PageStores ==
    {NoCollection} \cup
    {[exists |-> TRUE,
      metadata |-> PyMerge(Meta1("embedding_model", "m1"), Meta1("hnsw:space", "cosine")),
      docs |-> [i \in 1..n |->
                  [id |-> GenId(i), text |-> "a",
                   metadata |-> IF i % 2 = 1 THEN Meta1("topic", "x") ELSE EmptyMeta,
                   embedding |-> encode("m1", "a")]],
      dimension |-> IF n = 0 THEN 0 ELSE embedding_models["m1"].dimensions] :
        n \in PageSizes}

InitPage ==
    /\ chroma \in [Names -> PageStores]
    /\ created_with = [n \in Names |-> MetaGet(chroma[n].metadata, "embedding_model")]
    /\ resp = BaseResp
    /\ cross_encoder_model = FALSE
    /\ emptying = NoEmptying

NextPage ==
    \E n \in Names, w \in Wheres, l \in PageLimits, o \in PageOffsets :
        get_documents(n, w, l, o)

SpecPage == InitPage /\ [][NextPage]_vars

\* empty_collection running beside addDocuments requests on worker threads
NextConc ==
    \/ \E n \in Names, m \in RequestModels, md \in CollMetas : create_collection(n, m, md)
    \/ \E n \in Names, docs \in Batches : add_documents(n, docs)
    \/ \E n \in Names, st \in {404, 500} : empty_read(n, st)
    \/ empty_delete

SpecConc == Init /\ [][NextConc]_vars

\* ======================================================================
\* Properties
\* ======================================================================
Resolution(name) == get_embedding_model_for_collection(get_collection(name).metadata)

Called(r, call) == \E i \in DOMAIN r.calls : r.calls[i] = call

\* C1 (as claimed): a create request whose name is the name of an existing
\* collection fails with Conflict (409) and leaves the store as it was.
C1_CreateExistingIsConflict ==
    [][(resp'.op = "create" /\ resp'.existed)
        => (resp'.status = 409 /\ chroma' = chroma)]_vars

C3_BindingNeverChanges ==
    \A n \in Names :
        chroma[n].exists => MetaGet(chroma[n].metadata, "embedding_model") = created_with[n]

\* C4 (as claimed): every vector stored in a collection created with a loaded
\* model has that model's output dimensionality.
C4_VectorsHaveBoundDimension ==
    \A n \in Names :
        (chroma[n].exists /\ created_with[n] \in DOMAIN embedding_models)
            => \A i \in DOMAIN chroma[n].docs :
                  Len(chroma[n].docs[i].embedding) = embedding_models[created_with[n]].dimensions

\* what a request that stops at model resolution must not have done
StoppedAtResolution(r) ==
    /\ r.encoded = 0
    /\ ~Called(r, "add")
    /\ ~Called(r, "query")
    /\ r.ids = <<>>
    /\ r.hits = <<>>

\* C5 (as claimed): addDocuments and query on an existing collection fail 400
\* when its metadata has no embedding_model and 503 when the embedding_model
\* is not loaded, and then nothing is embedded, written or searched.
C5_ResolutionSameInAddAndQuery ==
    (resp.op \in {"add", "query"} /\ resp.existed)
        => /\ Resolution(resp.name).status = 400
                => (resp.status = 400 /\ StoppedAtResolution(resp))
           /\ Resolution(resp.name).status = 503
                => (resp.status = 503 /\ StoppedAtResolution(resp))

\* C5 (amended): the same for query and for addDocuments with a non-empty
\* documents list; an addDocuments with an empty list fails 400 before the
\* model is resolved, whatever the metadata says.
C5_ResolutionAfterEmptyListCheck ==
    (resp.op \in {"add", "query"} /\ resp.existed)
        => /\ (resp.op = "add" /\ resp.ndocs = 0)
                => (resp.status = 400 /\ StoppedAtResolution(resp))
           /\ (resp.op = "query" \/ resp.ndocs > 0)
                => /\ Resolution(resp.name).status = 400
                        => (resp.status = 400 /\ StoppedAtResolution(resp))
                   /\ Resolution(resp.name).status = 503
                        => (resp.status = 503 /\ StoppedAtResolution(resp))

\* C5 witness: a batch with an empty text sent to a collection bound to a
\* model that is not loaded was answered 503.
C5_Witness ==
    /\ resp.op = "add" /\ resp.existed
    /\ resp.bad > 0
    /\ Resolution(resp.name).status = 503
    /\ resp.status = 503

\* C6 (as claimed): an addDocuments request on an existing collection with an
\* empty list or an entry without text fails 400 and stores nothing.
C6_InvalidBatchIs400 ==
    [][(resp'.op = "add" /\ resp'.existed /\ (resp'.ndocs = 0 \/ resp'.bad > 0))
        => (resp'.status = 400 /\ chroma' = chroma)]_vars

\* C6 (amended): such a request fails and stores nothing; the status is 400,
\* except that a non-empty list sent to a collection whose embedding_model
\* names a model that is not loaded fails 503, because the model is resolved
\* before the texts are inspected.
C6_InvalidBatchStoresNothing ==
    [][(resp'.op = "add" /\ resp'.existed /\ (resp'.ndocs = 0 \/ resp'.bad > 0))
        => /\ resp'.status = IF resp'.ndocs > 0 /\ Resolution(resp'.name).status = 503
                             THEN 503 ELSE 400
           /\ chroma' = chroma
           /\ resp'.encoded = 0
           /\ ~Called(resp', "add")]_vars

\* C6 witness: a batch whose second entry has no text, after a valid first
\* entry, was rejected with 400 by a collection bound to a loaded model.
C6_Witness ==
    /\ resp.op = "add" /\ resp.existed
    /\ resp.bad = 2
    /\ Resolution(resp.name).status = 200
    /\ resp.status = 400

\* C7 (as claimed): addDocuments on a name that is not an existing collection
\* fails NotFound (404) and creates no collection and no document.
C7_AddToMissingIs404 ==
    [][(resp'.op = "add" /\ ~resp'.existed)
        => (resp'.status = 404 /\ chroma' = chroma)]_vars

\* C8 (as claimed): a query without a collection name fails 400, a query on a
\* name that is not an existing collection fails 404, and no query changes
\* the collections, their metadata or their documents.
C8_QueryStatusAndFrame ==
    [][(resp'.op = "query")
        => /\ chroma' = chroma
           /\ resp'.name = NoName => resp'.status = 400
           /\ (resp'.name # NoName /\ ~resp'.existed) => resp'.status = 404]_vars

DocsOf(name) == get_collection(name).docs

MinimalHit(r, id) ==
    \E j \in DOMAIN r.hits :
        /\ r.hits[j].id = id
        /\ \A k \in DOMAIN r.hits : r.hits[j].distance <= r.hits[k].distance

C10_EmptyKeepsCollection ==
    [][/\ (resp'.op = "empty" /\ resp'.status = 200)
            => /\ chroma'[resp'.name].exists
               /\ chroma'[resp'.name].docs = <<>>
               /\ chroma'[resp'.name].metadata = chroma[resp'.name].metadata
               /\ resp'.count = Len(chroma[resp'.name].docs)
       /\ (resp.op = "empty" /\ resp.status = 200
           /\ resp'.op = "get_documents" /\ resp'.name = resp.name)
            => /\ resp'.status = 200
               /\ resp'.documents = <<>>
               /\ resp'.count = 0]_vars

\* C10 witness: empty removed two documents from a collection that is bound
\* to a model and is still there.
C10_Witness ==
    /\ resp.op = "empty" /\ resp.status = 200
    /\ resp.count = 2
    /\ chroma[resp.name].exists
    /\ chroma[resp.name].docs = <<>>
    /\ MetaGet(chroma[resp.name].metadata, "embedding_model") # NoName
\* what POST /rerank answered with a loaded cross-encoder
Reranked == resp.op = "rerank" /\ resp.status = 200

\* the best-scoring n candidates are exactly the returned ones: no candidate
\* left out scores above a returned one
TopScoring ==
    \A i \in DOMAIN resp.reqdocs :
        (\A j \in DOMAIN resp.reranked : resp.reranked[j].original_rank # i)
            => \A j \in DOMAIN resp.reranked :
                  resp.reranked[j].score >= predict(resp.query, resp.reqdocs[i].text)

Descending ==
    \A i, j \in DOMAIN resp.reranked :
        i < j => resp.reranked[i].score >= resp.reranked[j].score

\* C11 (as claimed): with a loaded reranker and top_k = n given, n = 0
\* included, rerank returns exactly min(n, len(candidates)) items, the
\* highest-scoring ones in descending order; without top_k it returns all.
C11_TopKReturnsMin ==
    Reranked
        => /\ resp.top_k # NoTopK => Len(resp.reranked) = Min(resp.top_k, Len(resp.reqdocs))
           /\ resp.top_k = NoTopK => Len(resp.reranked) = Len(resp.reqdocs)
           /\ TopScoring
           /\ Descending

\* C12: the output of rerank is in non-increasing score order, candidates
\* with equal scores keep their input order, and every item carries the
\* 1-based input position, the id and the score of its candidate.
C12_StableDescending ==
    Reranked
        => /\ Descending
           /\ \A i, j \in DOMAIN resp.reranked :
                (i < j /\ resp.reranked[i].score = resp.reranked[j].score)
                    => resp.reranked[i].original_rank < resp.reranked[j].original_rank
           /\ \A i \in DOMAIN resp.reranked :
                /\ resp.reranked[i].original_rank \in DOMAIN resp.reqdocs
                /\ resp.reranked[i].id = resp.reqdocs[resp.reranked[i].original_rank].id
                /\ resp.reranked[i].score =
                     predict(resp.query, resp.reqdocs[resp.reranked[i].original_rank].text)
           /\ TopScoring

\* C12 witness: three candidates came back reordered, the two with equal
\* scores first and in their input order, behind them nothing better.
C12_Witness ==
    /\ Reranked
    /\ Len(resp.reranked) = 3
    /\ resp.reranked[1].score = resp.reranked[2].score
    /\ resp.reranked[1].original_rank = 2
    /\ resp.reranked[2].original_rank = 3
    /\ resp.reranked[3].original_rank = 1

\* C13: updateMetadata on an existing collection leaves its metadata equal to
\* the request's metadata when merge is false, and to the union of old and
\* new keys when merge is true, new values winning and other keys keeping
\* their old value; the documents are unchanged in both modes.
C13_ReplaceOrMerge ==
    [][\A n \in Names :
         (resp'.op = "update" /\ resp'.name = n /\ chroma[n].exists)
            => /\ chroma'[n].exists
               /\ chroma'[n].docs = chroma[n].docs
               /\ ~resp'.merge => chroma'[n].metadata = resp'.reqmeta
               /\ resp'.merge =>
                    /\ DOMAIN chroma'[n].metadata =
                         DOMAIN chroma[n].metadata \cup DOMAIN resp'.reqmeta
                    /\ \A k \in DOMAIN resp'.reqmeta :
                         chroma'[n].metadata[k] = resp'.reqmeta[k]
                    /\ \A k \in DOMAIN chroma[n].metadata \ DOMAIN resp'.reqmeta :
                         chroma'[n].metadata[k] = chroma[n].metadata[k]]_vars

\* C13 witness: a merging update has answered on a collection that holds
\* documents; the metadata has the request's key and keys the request did
\* not name.
C13_Witness ==
    /\ resp.op = "update" /\ resp.status = 200 /\ resp.merge
    /\ resp.name \in Names
    /\ chroma[resp.name].docs # <<>>
    /\ DOMAIN resp.reqmeta # {}
    /\ DOMAIN resp.reqmeta \subseteq DOMAIN chroma[resp.name].metadata
    /\ DOMAIN chroma[resp.name].metadata \ DOMAIN resp.reqmeta # {}

\* the raw values of a field over the documents of a collection that carry it
CarriedValues(name, field) ==
    {chroma[name].docs[i].metadata[field] :
        i \in {j \in DOMAIN chroma[name].docs : field \in DOMAIN chroma[name].docs[j].metadata}}

Matching(name, where) ==
    Cardinality({i \in DOMAIN chroma[name].docs : matches(chroma[name].docs[i].metadata, where)})

\* what is left of n documents behind an offset
Behind(n, offset) == IF n > offset THEN n - offset ELSE 0

ValidationError(r) ==
    \/ r.op = "create" /\ r.model \notin DOMAIN embedding_models
    \/ r.op = "add" /\ (r.ndocs = 0 \/ r.bad > 0)

\* C16 (as claimed): a create or addDocuments request with a validation
\* error makes no call to the storage engine, read or write.
C16_NoEngineCallBeforeValidation ==
    ValidationError(resp) => resp.calls = <<>>

\* C16 (amended): such a request makes exactly one engine call, the lookup
\* of the collection by name, which both handlers issue first; it creates no
\* collection, writes no document and computes no embedding.
C16_OnlyLookupBeforeValidation ==
    [][ValidationError(resp')
        => /\ resp'.calls = <<"get_collection">>
           /\ resp'.encoded = 0
           /\ chroma' = chroma
           /\ created_with' = created_with]_vars

\* C16 witness: a create naming an unregistered model was refused with 400
\* on a name that was free, after the lookup and without creating anything.
C16_Witness ==
    /\ resp.op = "create" /\ resp.status = 400
    /\ resp.model = "mx"
    /\ ~resp.existed
    /\ resp.calls = <<"get_collection">>
    /\ ~chroma[resp.name].exists

\* C17 (as claimed): a successful addDocuments returns count = number of
\* submitted documents and as many ids, and every returned id denotes a
\* document this request stored: it was not in the collection before the
\* call and is in it afterwards.
C17_ReturnedIdsWereStored ==
    [][(resp'.op = "add" /\ resp'.status = 200)
        => /\ resp'.count = resp'.ndocs
           /\ Len(resp'.ids) = resp'.ndocs
           /\ \A i \in DOMAIN resp'.ids :
                /\ resp'.ids[i] \notin StoredIds(chroma[resp'.name])
                /\ resp'.ids[i] \in StoredIds(chroma'[resp'.name])]_vars

\* C18: empty deletes exactly the ids it read in its snapshot step and
\* reports their number; a document that addDocuments wrote between the
\* snapshot and the delete stays in the collection, in place, and the
\* collection and its metadata stay as they were.
C18_EmptyDeletesItsSnapshot ==
    [][(emptying.active /\ ~emptying'.active)
        => LET n == emptying.name
               outside(d) == d.id \notin Range(emptying.ids)
           IN  /\ resp'.op = "empty" /\ resp'.status = 200 /\ resp'.name = n
               /\ resp'.count = Len(emptying.ids)
               /\ chroma'[n].docs = SelectSeq(chroma[n].docs, outside)
               /\ StoredIds(chroma'[n]) =
                    StoredIds(chroma[n]) \ Range(emptying.ids)
               /\ chroma'[n].exists
               /\ chroma'[n].metadata = chroma[n].metadata]_vars

\* C18 witness: empty has just answered "emptied" with a positive
\* count_deleted and the collection holds a document.
C18_Witness ==
    /\ resp.op = "empty" /\ resp.status = 200
    /\ resp.count > 0
    /\ chroma[resp.name].docs # <<>>
====
